---- MODULE Spec2Model ----
(***************************************************************************)
(* Model of the lock-free (Treiber) stack of src/src/main.rs.              *)
(*                                                                         *)
(* The heap is a finite set of addresses.  Box::new may return any address *)
(* that is not currently allocated, in particular one that was freed       *)
(* before.  A read through a dangling pointer is undefined behaviour and   *)
(* is modelled as a nondeterministic choice of the value read.             *)
(* compare_exchange_weak may fail although head holds the expected value.  *)
(* A dangling read or an invalid free may instead fault, which ends the    *)
(* process: the thread stays at pc "fault" and no thread steps again.      *)
(* A cell's dropped flag records that the destructor of its data has run   *)
(* on an owned copy of the node (ptr::read of the whole Node<T>, whose     *)
(* temporary is dropped at the end of the statement).                      *)
(*                                                                         *)
(* abs, expect, npush, popped, vals and pops are history variables: the    *)
(* sequential stack (pushes and pops applied at their successful CAS or    *)
(* empty load), what it returned to each pop, and counts of calls.         *)
(***************************************************************************)
EXTENDS Integers, Sequences, FiniteSets

VARIABLES head, mem, pc, todo, new_node_ptr, current, current_head, next,
          ret, vals, pops, brk, abs, expect, npush, popped

vars == <<head, mem, pc, todo, new_node_ptr, current, current_head, next,
          ret, vals, pops, brk, abs, expect, npush, popped>>

\* ---------------------------------------------------------------- bounds
\* threads, heap blocks, calls in a concurrent run, calls in a sequential run
NumThreads == 2
NumAddr == 6
MaxOps == 7
SeqOps == 6

Threads == 1..NumThreads
Addr == 1..NumAddr
\* calls per thread in the push-only and pop-only runs: what the heap can hold
PerThread == NumAddr \div NumThreads
Null == 0
Ptr == Addr \cup {Null}
MaxVal == IF MaxOps > NumAddr THEN MaxOps ELSE NumAddr
Vals == 1..MaxVal
NoRet == 0
Empty == -1

\* ------------------------------------------------------------------ heap
FreeCell == [alloc |-> FALSE, data |-> 0, next |-> Null, dropped |-> FALSE]

Node(d, n) == [alloc |-> TRUE, data |-> d, next |-> n, dropped |-> FALSE]

\* Box::new returns a block that was freed before or the first block that was
\* never handed out (blocks never handed out are interchangeable).
FreeAddrs == {a \in Addr : ~mem[a].alloc /\ a <= brk + 1}

RECURSIVE LenFrom(_, _, _)
LenFrom(cur, count, fuel) ==
    IF cur = Null \/ fuel = 0 THEN count
    ELSE LenFrom(mem[cur].next, count + 1, fuel - 1)

len == LenFrom(head, 0, NumAddr + 1)

RECURSIVE ChainFrom(_, _)
ChainFrom(cur, fuel) ==
    IF cur = Null \/ fuel = 0 THEN <<>>
    ELSE <<cur>> \o ChainFrom(mem[cur].next, fuel - 1)

Chain == ChainFrom(head, NumAddr + 1)

ChainData == [i \in 1..Len(Chain) |-> mem[Chain[i]].data]

\* ------------------------------------------------------------------ init
new ==
    /\ head = Null
    /\ mem = [a \in Addr |-> FreeCell]
    /\ brk = 0

Locals ==
    /\ pc = [t \in Threads |-> "idle"]
    /\ new_node_ptr = [t \in Threads |-> Null]
    /\ current = [t \in Threads |-> Null]
    /\ current_head = [t \in Threads |-> Null]
    /\ next = [t \in Threads |-> Null]
    /\ ret = [t \in Threads |-> NoRet]
    /\ expect = [t \in Threads |-> NoRet]
    /\ popped = <<>>
    /\ pops = 0

RECURSIVE Sum(_, _)
Sum(f, n) == IF n = 0 THEN 0 ELSE f[n] + Sum(f, n - 1)

Init ==
    /\ new
    /\ Locals
    /\ todo \in {f \in [Threads -> 0..MaxOps] : Sum(f, NumThreads) = MaxOps}
    /\ vals = 0
    /\ abs = <<>>
    /\ npush = 0

\* ------------------------------------------------------------------ push
PushAlloc(t) ==
    /\ pc[t] = "idle"
    /\ todo[t] > 0
    /\ \E a \in FreeAddrs :
          /\ mem' = [mem EXCEPT ![a] = Node(vals + 1, Null)]
          /\ new_node_ptr' = [new_node_ptr EXCEPT ![t] = a]
          /\ brk' = IF a > brk THEN a ELSE brk
    /\ vals' = vals + 1
    /\ todo' = [todo EXCEPT ![t] = @ - 1]
    /\ ret' = [ret EXCEPT ![t] = NoRet]
    /\ expect' = [expect EXCEPT ![t] = NoRet]
    /\ pc' = [pc EXCEPT ![t] = "push_load"]
    /\ UNCHANGED <<head, current, current_head, next, pops, abs, npush, popped>>

PushLoad(t) ==
    /\ pc[t] = "push_load"
    /\ current' = [current EXCEPT ![t] = head]
    /\ pc' = [pc EXCEPT ![t] = "push_store"]
    /\ UNCHANGED <<head, mem, todo, new_node_ptr, current_head, next, ret, vals, pops, brk,
                   abs, expect, npush, popped>>

\* mutant: the new node's next is left empty instead of set to current
PushStoreNull(t) ==
    /\ pc[t] = "push_store"
    /\ mem' = [mem EXCEPT ![new_node_ptr[t]].next = Null]
    /\ pc' = [pc EXCEPT ![t] = "push_cas"]
    /\ UNCHANGED <<head, todo, new_node_ptr, current, current_head, next, ret, vals, pops, brk,
                   abs, expect, npush, popped>>

PushStore(t) ==
    /\ pc[t] = "push_store"
    /\ mem' = [mem EXCEPT ![new_node_ptr[t]].next = current[t]]
    /\ pc' = [pc EXCEPT ![t] = "push_cas"]
    /\ UNCHANGED <<head, todo, new_node_ptr, current, current_head, next, ret, vals, pops, brk,
                   abs, expect, npush, popped>>

\* mutant: head is stored without comparing it with current
PushCASOkNoCompare(t) ==
    /\ pc[t] = "push_cas"
    /\ head' = new_node_ptr[t]
    /\ abs' = <<mem[new_node_ptr[t]].data>> \o abs
    /\ npush' = npush + 1
    /\ new_node_ptr' = [new_node_ptr EXCEPT ![t] = Null]
    /\ current' = [current EXCEPT ![t] = Null]
    /\ pc' = [pc EXCEPT ![t] = "idle"]
    /\ UNCHANGED <<mem, todo, current_head, next, ret, vals, pops, brk, expect, popped>>

PushCASOk(t) ==
    /\ pc[t] = "push_cas"
    /\ head = current[t]
    /\ head' = new_node_ptr[t]
    /\ abs' = <<mem[new_node_ptr[t]].data>> \o abs
    /\ npush' = npush + 1
    /\ new_node_ptr' = [new_node_ptr EXCEPT ![t] = Null]
    /\ current' = [current EXCEPT ![t] = Null]
    /\ pc' = [pc EXCEPT ![t] = "idle"]
    /\ UNCHANGED <<mem, todo, current_head, next, ret, vals, pops, brk, expect, popped>>

\* mutant: a failed CAS gives up and push returns without linking its node
PushCASFailGivesUp(t) ==
    /\ pc[t] = "push_cas"
    /\ new_node_ptr' = [new_node_ptr EXCEPT ![t] = Null]
    /\ current' = [current EXCEPT ![t] = Null]
    /\ pc' = [pc EXCEPT ![t] = "idle"]
    /\ UNCHANGED <<head, mem, todo, current_head, next, ret, vals, pops, brk,
                   abs, expect, npush, popped>>

PushCASFail(t) ==
    /\ pc[t] = "push_cas"
    /\ pc' = [pc EXCEPT ![t] = "push_load"]
    /\ UNCHANGED <<head, mem, todo, new_node_ptr, current, current_head, next, ret,
                   vals, pops, brk, abs, expect, npush, popped>>

\* ------------------------------------------------------------------- pop
PopLoad(t) ==
    /\ \/ /\ pc[t] = "idle"
          /\ todo[t] > 0
          /\ todo' = [todo EXCEPT ![t] = @ - 1]
          /\ pops' = pops + 1
       \/ /\ pc[t] = "pop_load"
          /\ UNCHANGED <<todo, pops>>
    /\ IF head = Null
         THEN /\ ret' = [ret EXCEPT ![t] = Empty]
              /\ expect' = [expect EXCEPT ![t] = IF abs = <<>> THEN Empty ELSE Head(abs)]
              /\ abs' = IF abs = <<>> THEN abs ELSE Tail(abs)
              /\ current_head' = [current_head EXCEPT ![t] = Null]
              /\ pc' = [pc EXCEPT ![t] = "idle"]
         ELSE /\ ret' = [ret EXCEPT ![t] = NoRet]
              /\ expect' = [expect EXCEPT ![t] = NoRet]
              /\ abs' = abs
              /\ current_head' = [current_head EXCEPT ![t] = head]
              /\ pc' = [pc EXCEPT ![t] = "pop_read"]
    /\ UNCHANGED <<head, mem, new_node_ptr, current, next, vals, brk, npush, popped>>

\* mutant: the pointer itself is taken for the node's next link
PopReadSelf(t) ==
    /\ pc[t] = "pop_read"
    /\ next' = [next EXCEPT ![t] = current_head[t]]
    /\ pc' = [pc EXCEPT ![t] = "pop_cas"]
    /\ UNCHANGED <<head, mem, todo, new_node_ptr, current, current_head, ret, vals, pops, brk,
                   abs, expect, npush, popped>>

PopRead(t) ==
    /\ pc[t] = "pop_read"
    /\ IF mem[current_head[t]].alloc
         THEN /\ next' = [next EXCEPT ![t] = mem[current_head[t]].next]
              /\ mem' = [mem EXCEPT ![current_head[t]].dropped = TRUE]
              /\ pc' = [pc EXCEPT ![t] = "pop_cas"]
         ELSE \/ /\ \E n \in Ptr : next' = [next EXCEPT ![t] = n]
                 /\ mem' = mem
                 /\ pc' = [pc EXCEPT ![t] = "pop_cas"]
              \/ /\ pc' = [pc EXCEPT ![t] = "fault"]
                 /\ UNCHANGED <<next, mem>>
    /\ UNCHANGED <<head, todo, new_node_ptr, current, current_head, ret, vals, pops, brk,
                   abs, expect, npush, popped>>

\* mutant: head is stored without comparing it with current_head
PopCASOkNoCompare(t) ==
    /\ pc[t] = "pop_cas"
    /\ head' = next[t]
    /\ expect' = [expect EXCEPT ![t] = IF abs = <<>> THEN Empty ELSE Head(abs)]
    /\ abs' = IF abs = <<>> THEN abs ELSE Tail(abs)
    /\ next' = [next EXCEPT ![t] = Null]
    /\ pc' = [pc EXCEPT ![t] = "pop_free"]
    /\ UNCHANGED <<mem, todo, new_node_ptr, current, current_head, ret, vals, pops, brk,
                   npush, popped>>

PopCASOk(t) ==
    /\ pc[t] = "pop_cas"
    /\ head = current_head[t]
    /\ head' = next[t]
    /\ expect' = [expect EXCEPT ![t] = IF abs = <<>> THEN Empty ELSE Head(abs)]
    /\ abs' = IF abs = <<>> THEN abs ELSE Tail(abs)
    /\ next' = [next EXCEPT ![t] = Null]
    /\ pc' = [pc EXCEPT ![t] = "pop_free"]
    /\ UNCHANGED <<mem, todo, new_node_ptr, current, current_head, ret, vals, pops, brk,
                   npush, popped>>

\* mutant: after a failed CAS the pop frees the node and returns its data
PopCASFailFrees(t) ==
    /\ pc[t] = "pop_cas"
    /\ next' = [next EXCEPT ![t] = Null]
    /\ pc' = [pc EXCEPT ![t] = "pop_free"]
    /\ UNCHANGED <<head, mem, todo, new_node_ptr, current, current_head, ret, vals, pops, brk,
                   abs, expect, npush, popped>>

\* mutant: a failed CAS makes the pop return the empty-indicator
PopCASFailReturnsNone(t) ==
    /\ pc[t] = "pop_cas"
    /\ next' = [next EXCEPT ![t] = Null]
    /\ current_head' = [current_head EXCEPT ![t] = Null]
    /\ ret' = [ret EXCEPT ![t] = Empty]
    /\ pc' = [pc EXCEPT ![t] = "idle"]
    /\ UNCHANGED <<head, mem, todo, new_node_ptr, current, vals, pops, brk,
                   abs, expect, npush, popped>>

\* mutant: the retry skips the fresh load of head and reuses the stale one
PopCASFailNoReload(t) ==
    /\ pc[t] = "pop_cas"
    /\ next' = [next EXCEPT ![t] = Null]
    /\ pc' = [pc EXCEPT ![t] = "pop_read"]
    /\ UNCHANGED <<head, mem, todo, new_node_ptr, current, current_head, ret, vals, pops, brk,
                   abs, expect, npush, popped>>

\* mutant: a failed CAS stores the link it read into head all the same
PopCASFailStores(t) ==
    /\ pc[t] = "pop_cas"
    /\ head # current_head[t]
    /\ head' = next[t]
    /\ next' = [next EXCEPT ![t] = Null]
    /\ current_head' = [current_head EXCEPT ![t] = Null]
    /\ pc' = [pc EXCEPT ![t] = "pop_load"]
    /\ UNCHANGED <<mem, todo, new_node_ptr, current, ret, vals, pops, brk,
                   abs, expect, npush, popped>>

PopCASFail(t) ==
    /\ pc[t] = "pop_cas"
    /\ next' = [next EXCEPT ![t] = Null]
    /\ current_head' = [current_head EXCEPT ![t] = Null]
    /\ pc' = [pc EXCEPT ![t] = "pop_load"]
    /\ UNCHANGED <<head, mem, todo, new_node_ptr, current, ret, vals, pops, brk,
                   abs, expect, npush, popped>>

PopFree(t) ==
    /\ pc[t] = "pop_free"
    /\ IF mem[current_head[t]].alloc
         THEN /\ ret' = [ret EXCEPT ![t] = mem[current_head[t]].data]
              /\ mem' = [mem EXCEPT ![current_head[t]] = FreeCell]
              /\ popped' = Append(popped, ret'[t])
              /\ current_head' = [current_head EXCEPT ![t] = Null]
              /\ pc' = [pc EXCEPT ![t] = "idle"]
         ELSE \/ /\ \E v \in Vals : ret' = [ret EXCEPT ![t] = v]
                 /\ mem' = mem
                 /\ popped' = Append(popped, ret'[t])
                 /\ current_head' = [current_head EXCEPT ![t] = Null]
                 /\ pc' = [pc EXCEPT ![t] = "idle"]
              \/ /\ pc' = [pc EXCEPT ![t] = "fault"]
                 /\ UNCHANGED <<ret, mem, popped, current_head>>
    /\ UNCHANGED <<head, todo, new_node_ptr, current, next, vals, pops, brk, abs, expect,
                   npush>>

\* ------------------------------------------------------------------ specs
\* a fault (SIGSEGV at a dangling read, abort at an invalid free) ends the process
Faulted == \E t \in Threads : pc[t] = "fault"

Next ==
    /\ ~Faulted
    /\ \E t \in Threads :
          \/ PushAlloc(t)
          \/ PushLoad(t)
          \/ PushStore(t)
          \/ PushCASOk(t)
          \/ PushCASFail(t)
          \/ PopLoad(t)
          \/ PopRead(t)
          \/ PopCASOk(t)
          \/ PopCASFail(t)
          \/ PopFree(t)

Spec == Init /\ [][Next]_vars

\* Every thread issues PerThread calls, each a push or a pop.
InitMix ==
    /\ new
    /\ Locals
    /\ todo = [t \in Threads |-> PerThread]
    /\ vals = 0
    /\ abs = <<>>
    /\ npush = 0

SpecMix == InitMix /\ [][Next]_vars

\* Single-threaded use: only thread 1 issues calls.
InitSeq ==
    /\ new
    /\ Locals
    /\ todo = [t \in Threads |-> IF t = 1 THEN SeqOps ELSE 0]
    /\ vals = 0
    /\ abs = <<>>
    /\ npush = 0

SpecSeq == InitSeq /\ [][Next]_vars

\* tests::test_push: every thread pushes PerThread values, nobody pops.
InitPush ==
    /\ new
    /\ Locals
    /\ todo = [t \in Threads |-> PerThread]
    /\ vals = 0
    /\ abs = <<>>
    /\ npush = 0

NextPush ==
    \E t \in Threads :
       \/ PushAlloc(t)
       \/ PushLoad(t)
       \/ PushStore(t)
       \/ PushCASOk(t)
       \/ PushCASFail(t)

SpecPush == InitPush /\ [][NextPush]_vars

\* tests::test_pop: the stack holds K elements (pushed by one thread, the
\* k-th into block k), then the threads only pop.
InitPop ==
    /\ Locals
    /\ \E K \in 0..NumAddr :
          /\ head = K
          /\ mem = [a \in Addr |-> IF a <= K THEN Node(a, a - 1) ELSE FreeCell]
          /\ brk = K
          /\ vals = K
          /\ npush = K
          /\ abs = [i \in 1..K |-> K + 1 - i]
    /\ todo = [t \in Threads |-> PerThread]

NextPop ==
    /\ ~Faulted
    /\ \E t \in Threads :
          \/ PopLoad(t)
          \/ PopRead(t)
          \/ PopCASOk(t)
          \/ PopCASFail(t)
          \/ PopFree(t)

SpecPop == InitPop /\ [][NextPop]_vars

\* ----------------------------------------------------------- vocabulary
AllDone == \A t \in Threads : pc[t] = "idle" /\ todo[t] = 0

\* the step returns from a pop of thread t
PopReturns(t) ==
    /\ pc'[t] = "idle"
    /\ \/ pc[t] \in {"pop_load", "pop_free"}
       \/ pc[t] = "idle" /\ todo'[t] # todo[t] /\ pops' = pops + 1

\* the step is a load of head by a pop of thread t
PopLoads(t) ==
    \/ pc[t] = "pop_load" /\ pc'[t] # "pop_load"
    \/ pc[t] = "idle" /\ todo'[t] # todo[t] /\ pops' = pops + 1

PushCASSucceeds(t) == pc[t] = "push_cas" /\ pc'[t] = "idle"

PopCASSucceeds(t) == pc[t] = "pop_cas" /\ pc'[t] = "pop_free"

PopCASFails(t) == pc[t] = "pop_cas" /\ pc'[t] # "pop_cas" /\ ~PopCASSucceeds(t)

Range(s) == {s[i] : i \in 1..Len(s)}

NoDup(s) == \A i, j \in 1..Len(s) : i # j => s[i] # s[j]

\* ----------------------------------------------------------------- claims

\* C1: every pop that has returned returned what the sequential LIFO stack
\* returns at the pop's linearization point (its successful CAS, or its load
\* of an empty head), pushes taking effect at their successful CAS.
Linearizable ==
    \A t \in Threads : pc[t] = "idle" /\ ret[t] # NoRet => ret[t] = expect[t]

\* C2: under single-threaded use every pop returns the most recently pushed
\* value not yet popped, the empty-indicator exactly when there is none, and
\* between calls the chain from head holds exactly the unpopped values, most
\* recent first.
SeqLIFO ==
    /\ pc[1] = "idle" => ChainData = abs
    /\ pc[1] = "idle" /\ ret[1] # NoRet => ret[1] = expect[1]
    /\ pc[1] = "idle" /\ ret[1] = Empty => abs = <<>>

SeqLIFOWitness ==
    /\ vals = 3
    /\ popped = <<3, 2, 1>>
    /\ pc[1] = "idle"
    /\ ret[1] = 1

\* C3: after T threads have pushed M values each with no pops, len() is T * M
\* and every pushed value is in the chain exactly once.
PushConservation ==
    AllDone =>
       /\ len = NumThreads * PerThread
       /\ Len(ChainData) = NumThreads * PerThread
       /\ Range(ChainData) = 1..(NumThreads * PerThread)

PushConservationWitness ==
    /\ AllDone
    /\ npush = NumThreads * PerThread
    /\ len = npush
    /\ ChainData[1] # vals

\* C4: K elements, at least K pop calls, no pushes: once every thread has
\* finished the stack is empty.
PopDrains ==
    AllDone /\ pops >= npush => head = Null /\ len = 0

PopDrainsWitness ==
    /\ AllDone
    /\ npush = NumAddr
    /\ pops = NumAddr
    /\ head = Null
    /\ \E t \in Threads : todo[t] = 0 /\ ret[t] \in Vals

\* C5: concurrent pops of K elements, no pushes: every returned value was in
\* the stack, none is returned twice, and with K pop calls all are returned.
PopDistinct ==
    /\ Range(popped) \subseteq 1..npush
    /\ NoDup(popped)
    /\ AllDone /\ pops = npush => Range(popped) = 1..npush

PopDistinctWitness ==
    /\ AllDone
    /\ npush = NumAddr
    /\ Len(popped) = NumAddr
    /\ popped[1] # NumAddr

\* C6: at most as many pops have returned a value as push CASes succeeded.
PopsAtMostPushes == Len(popped) <= npush

\* C7: a pop frees the node it unlinked, and that block is allocated when it
\* is freed (no block is freed twice).
NoDoubleFree ==
    \A t \in Threads : pc[t] = "pop_free" => mem[current_head[t]].alloc

\* C8: when a pop dereferences the pointer it loaded from head, the node has
\* not been deallocated.
NoUseAfterFree ==
    \A t \in Threads : pc[t] = "pop_read" => mem[current_head[t]].alloc

\* C9: while head is the empty-indicator, no pop CAS succeeds, every pop that
\* loads head returns the empty-indicator, and only a successful push CAS
\* makes head non-empty again.
EmptyStaysEmpty ==
    [][head = Null =>
          /\ \A t \in Threads :
                /\ ~PopCASSucceeds(t)
                /\ PopLoads(t) => PopReturns(t) /\ ret'[t] = Empty
          /\ head' # Null => \E t \in Threads : PushCASSucceeds(t)]_vars

EmptyStaysEmptyWitness ==
    /\ head = Null
    /\ npush > 0
    /\ Len(popped) = npush
    /\ \E t, u \in Threads :
          /\ pc[t] = "idle" /\ ret[t] = Empty
          /\ pc[u] = "pop_cas" /\ current_head[u] # Null

\* C10: a pop returns the empty-indicator iff the load of its last iteration
\* saw an empty head; a failed CAS returns nothing and goes back to the load.
EmptyIffNullLoad ==
    [][\A t \in Threads :
          /\ PopReturns(t) =>
                /\ ret'[t] = Empty <=> PopLoads(t) /\ head = Null
                /\ ret'[t] # Empty <=> pc[t] = "pop_free" /\ current_head[t] # Null
          /\ PopCASFails(t) =>
                /\ pc'[t] = "pop_load"
                /\ ret'[t] = NoRet
                /\ popped' = popped]_vars

EmptyIffNullLoadWitness ==
    \E t, u \in Threads :
       /\ pc[t] = "idle" /\ ret[t] = Empty
       /\ pc[u] = "pop_load" /\ ret[u] = NoRet

\* ------------------------------------------------------------------ push
PushPcs == {"push_load", "push_store", "push_cas"}

InPush(t) == pc[t] \in PushPcs

Allocated == {a \in Addr : mem[a].alloc}

\* C11: a push call allocates exactly one node, at its start and never in a
\* retry; it returns only from its CAS, with head holding the loaded value and
\* its node becoming head, counted once; so every push call begun has either
\* linked its node exactly once or is still in its loop holding that node.
PushLinksOnce ==
    /\ [](vals = npush + Cardinality({t \in Threads : InPush(t)}))
    /\ [][\A t \in Threads :
            /\ (pc[t] = "idle" /\ pc'[t] \in PushPcs) =>
                  /\ new_node_ptr'[t] \notin Allocated
                  /\ Allocated' = Allocated \cup {new_node_ptr'[t]}
                  /\ vals' = vals + 1
                  /\ head' = head
            /\ (InPush(t) /\ pc'[t] \in PushPcs /\ pc'[t] # pc[t]) =>
                  /\ new_node_ptr'[t] = new_node_ptr[t]
                  /\ Allocated' = Allocated
                  /\ vals' = vals
                  /\ npush' = npush
                  /\ head' = head
            /\ (InPush(t) /\ pc'[t] \notin PushPcs) =>
                  /\ pc[t] = "push_cas" /\ pc'[t] = "idle"
                  /\ head = current[t]
                  /\ head' = new_node_ptr[t]
                  /\ npush' = npush + 1
                  /\ Allocated' = Allocated
         ]_vars

\* a push is retrying (its node already carries a stored link) after other
\* pushes have linked their nodes
PushLinksOnceWitness ==
    \E t \in Threads :
        /\ pc[t] = "push_load"
        /\ mem[new_node_ptr[t]].alloc
        /\ mem[new_node_ptr[t]].next # Null
        /\ npush >= 2


\* ------------------------------------------------------------------ progress
\* Steps keep being taken while some thread can step, and a thread whose CAS
\* finds head equal to the loaded value again and again does not fail it
\* spuriously for ever (compare_exchange_weak fails spuriously only finitely
\* often in a row).
Fairness ==
    /\ WF_vars(Next)
    /\ \A t \in Threads : SF_vars(PushCASOk(t)) /\ SF_vars(PopCASOk(t))

\* every thread issues LiveCalls calls, each a push or a pop
LiveCalls == PerThread - 1

InitLive ==
    /\ new
    /\ Locals
    /\ todo = [t \in Threads |-> LiveCalls]
    /\ vals = 0
    /\ abs = <<>>
    /\ npush = 0

FairMix == InitLive /\ [][Next]_vars /\ Fairness

InFlight == {t \in Threads : pc[t] # "idle"}

\* calls that have returned: calls begun minus calls in flight
Completed == vals + pops - Cardinality(InFlight)

\* C12: while some call is in flight and the process is running, some call
\* (of any thread) returns after finitely many steps.
LockFree ==
    \A n \in 0..(NumThreads * LiveCalls) :
        (InFlight # {} /\ ~Faulted /\ Completed = n) ~> (Completed > n \/ Faulted)

\* a pop is retrying after a failed CAS while calls of other threads returned
LockFreeWitness ==
    \E t \in Threads :
        /\ pc[t] = "pop_load"
        /\ current_head[t] = Null
        /\ todo[t] < LiveCalls
        /\ head # Null
        /\ Completed >= 2


PopCASCount == Len(popped) + Cardinality({t \in Threads : pc[t] = "pop_free"})

\* C14: the chain from head is finite and acyclic, ends at null, holds only
\* allocated (not freed) nodes, and has as many nodes as successful push CASes
\* minus successful pop CASes.
WellFormedChain ==
    /\ NoDup(Chain)
    /\ Len(Chain) <= NumAddr
    /\ \A a \in Range(Chain) : mem[a].alloc
    /\ ~Faulted => Len(Chain) = npush - PopCASCount

\* nodes a pop's CAS has unlinked: those being freed and those freed (until
\* Box::new hands the block out again as a new node)
UnlinkedNodes ==
    {current_head[t] : t \in {u \in Threads : pc[u] = "pop_free"}}
        \cup {a \in Addr : a <= brk /\ ~mem[a].alloc}

\* C15: a node that a pop's CAS has unlinked is never again head nor reachable
\* from head.
NeverRelinked == Range(Chain) \cap UnlinkedNodes = {}


\* ------------------------------------------------------------------ CAS
PushLoads(t) == pc[t] = "push_load" /\ pc'[t] = "push_store"

PushStores(t) == pc[t] = "push_store" /\ pc'[t] = "push_cas"

PushCASFails(t) == pc[t] = "push_cas" /\ pc'[t] = "push_load"

\* C16: a CAS of push or pop fails only if head no longer holds the value the
\* operation loaded; with head still holding it, the CAS succeeds.
CASFailsOnlyIfChanged ==
    [][\A t \in Threads :
          /\ PushCASFails(t) => head # current[t]
          /\ PopCASFails(t) => head # current_head[t]
      ]_vars

\* C17: no live node's data has been taken as owned or dropped by a pop's
\* read of the node, so the pop that returns node.data is the one taker.
DataTakenOnce == \A a \in Addr : mem[a].alloc => ~mem[a].dropped

\* C18: head changes only in a successful CAS of push or pop, taken while head
\* holds the value that operation loaded; a load, a failed CAS and a pop that
\* returns empty leave head and the link of every linked node unchanged (len
\* is an operator on the state and has no step).
HeadFrame ==
    [][/\ head' # head =>
             \E t \in Threads :
                 \/ PushCASSucceeds(t) /\ head = current[t] /\ head' = new_node_ptr[t]
                 \/ PopCASSucceeds(t) /\ head = current_head[t] /\ head' = next[t]
       /\ \A t \in Threads :
             (PushLoads(t) \/ PushCASFails(t) \/ PopLoads(t) \/ PopCASFails(t)
                 \/ (PopReturns(t) /\ ret'[t] = Empty)) =>
                 /\ head' = head
                 /\ \A a \in Range(Chain) : mem'[a].next = mem[a].next
      ]_vars

\* a pop is retrying after its CAS failed on a head another thread changed,
\* and the stack still holds a node
HeadFrameWitness ==
    \E t \in Threads :
        /\ pc[t] = "pop_load"
        /\ head # Null /\ mem[head].alloc
        /\ Len(popped) >= 1
        /\ npush >= 2

\* C19: push writes its node's link only while the node is not reachable from
\* head; at its successful CAS that link equals the head being replaced and
\* the old chain lies unchanged beneath the new node; the link of a node that
\* stays linked is never modified.
PushLinkStable ==
    [][/\ \A t \in Threads :
             /\ PushStores(t) => new_node_ptr[t] \notin Range(Chain)
             /\ PushCASSucceeds(t) =>
                   /\ mem[new_node_ptr[t]].next = head
                   /\ Chain' = <<new_node_ptr[t]>> \o Chain
       /\ \A a \in Range(Chain) \cap Range(Chain') : mem'[a].next = mem[a].next
      ]_vars

\* C20: when a pop's CAS succeeds, the link it installs is the link the node
\* at head holds at that instant, also when the address was freed and reused.
NoABA ==
    [][\A t \in Threads :
          (PopCASSucceeds(t) /\ mem[head].alloc) => next[t] = mem[head].next
      ]_vars

====
